---- MODULE Spec2Model ----
(***************************************************************************)
(* timer.h: the GET_TIME(now) macro in its two build variants.             *)
(*                                                                         *)
(*   _WIN32   static double frequency; init_frequency();                   *)
(*            GET_TIME: if (frequency == 0) init_frequency();              *)
(*                      QueryPerformanceCounter(&li);                      *)
(*                      now = (double)li.QuadPart / frequency;             *)
(*   else     GET_TIME: gettimeofday(&t, NULL);                            *)
(*                      now = t.tv_sec + t.tv_usec / 1000000.0;            *)
(*                                                                         *)
(* A process is a set of threads executing GET_TIME calls expanded in a    *)
(* set of translation units (source files that include timer.h).  Because  *)
(* `frequency` is declared static in the header, every translation unit    *)
(* owns its own copy.  Each statement of the macro is one step; a load or  *)
(* a store of the aligned 8-byte `frequency` is one memory access.         *)
(*                                                                         *)
(* The platform clock is observed only where the program reads it: a read  *)
(* finds it at any of the modelled instants, later or (after a clock        *)
(* adjustment) earlier than the instant of the previous read.              *)
(*                                                                         *)
(* A platform clock reading is a pair (sec, sub): for gettimeofday it is   *)
(* (tv_sec, tv_usec); for the performance counter it stands for the tick   *)
(* count QuadPart = sec * Freq + sub, which does not fit a TLC integer.    *)
(*                                                                         *)
(* A double is modelled exactly.  All readings of a run lie in one binade  *)
(* [2^e, 2^(e+1)), where a double is a multiple of 2^(e-52): the value     *)
(* [k |-> "fin", s |-> s, q |-> q] is s + q * 2^(e-52) seconds.            *)
(***************************************************************************)
EXTENDS Integers, Sequences, FiniteSets, TLC

\* ---- bounds of the model -------------------------------------------------
NThreads == 2      \* threads of the process
NUnits == 2        \* translation units that include timer.h
NVars == 2         \* caller variables passed to GET_TIME
MaxCalls == 3      \* GET_TIME calls per run
MaxDrift == 1      \* instants modelled on each side of a seconds rollover
EpochSec == 1700000000   \* tv_sec at process start (gettimeofday)
UptimeSec == 9000000     \* whole seconds of QuadPart / Freq at process start

\* ---- constants of the program and of its platform ------------------------
UsecPerSec == 1000000    \* timer.h:53, and the range of tv_usec
Freq == 10000000         \* ticks per second reported by QueryPerformanceFrequency
FracBits == 52           \* fraction bits of an IEEE-754 double

Threads == 1..NThreads
Units == 1..NUnits
\* The units whose expansion of GET_TIME differs in the state it uses: the
\* posix expansion refers to nothing outside its own block.
UnitsOf(v) == IF v = "win32" THEN Units ELSE {1}
VarNames == 1..NVars

VARIABLES
    variant,     \* "win32" | "posix": the #ifdef _WIN32 branch the build took
    platform,    \* "ok": the frequency query succeeds; "nocounter": it may yield 0
    clock,       \* the platform clock, [sec, sub]
    frequency,   \* [Units -> 0 | Freq]: `static double frequency`, one per unit
    pc,          \* [Threads -> position inside GET_TIME]
    cur,         \* [Threads -> index in calls of the call in progress, 0 if none]
    fli,         \* [Threads -> init_frequency's local li.QuadPart]
    li,          \* [Threads -> GET_TIME's local li (win32)]
    tv,          \* [Threads -> GET_TIME's local struct timeval t (posix)]
    mem,         \* [VarNames -> double]: the callers' variables
    calls        \* history of the calls: one record per GET_TIME call

vars == <<variant, platform, clock, frequency, pc, cur, fli, li, tv, mem, calls>>

\* ---- values --------------------------------------------------------------
NoRead == [sec |-> 0, sub |-> 0]            \* a local not yet written
Unset == [k |-> "unset", s |-> 0, q |-> 0]  \* a caller variable never assigned
Inf == [k |-> "inf", s |-> 0, q |-> 0]      \* x / 0.0 for x > 0
Wrong == [k |-> "wrong", s |-> 0, q |-> 0]  \* a quotient by a value other than Freq

RECURSIVE Log2(_)
Log2(n) == IF n < 2 THEN 0 ELSE 1 + Log2(n \div 2)

\* Number of quanta per second for a double in the binade of s.
QuantBits(s) == FracBits - Log2(s)

RECURSIVE Scale(_, _, _, _)
\* <<floor(r * 2^i / d), remainder>> by i doublings, for 0 <= r < d.
Scale(q, r, d, i) ==
    IF i = 0 THEN <<q, r>>
    ELSE IF 2 * r >= d THEN Scale(2 * q + 1, 2 * r - d, d, i - 1)
    ELSE Scale(2 * q, 2 * r, d, i - 1)

\* r / d seconds in quanta of 2^-m, rounded to nearest, ties to even.
RoundQuanta(r, d, m) ==
    LET fr == Scale(0, r, d, m)
    IN  IF 2 * fr[2] > d \/ (2 * fr[2] = d /\ fr[1] % 2 = 1) THEN fr[1] + 1 ELSE fr[1]

\* The double nearest to sec + sub / units.
ToDouble(sec, sub, units) ==
    LET m == QuantBits(sec)
        q == RoundQuanta(sub, units, m)
    IN  IF q = 2 ^ m THEN [k |-> "fin", s |-> sec + 1, q |-> 0]
        ELSE [k |-> "fin", s |-> sec, q |-> q]

\* ---- the platform --------------------------------------------------------
Units_(v) == IF v = "win32" THEN Freq ELSE UsecPerSec
StartSec(v) == IF v = "win32" THEN UptimeSec ELSE EpochSec

\* The instant d units after process start.
Instant(v, d) == [sec |-> StartSec(v) + d \div Units_(v), sub |-> d % Units_(v)]

\* The instants of the platform clock: a few at process start and a few
\* around the next rollover of the seconds.
Instants(v) ==
    {Instant(v, d) : d \in 0..MaxDrift} \cup
    {Instant(v, Units_(v) - 1 + d) : d \in 0..MaxDrift}

Before(a, b) == a.sec < b.sec \/ (a.sec = b.sec /\ a.sub < b.sub)

\* The clock readings a local can hold: every pairing of the seconds and the
\* sub-second fields of the instants.
Readings(v) == [sec : {i.sec : i \in Instants(v)}, sub : {i.sub : i \in Instants(v)}]

\* The pairs <<reading, its double>> of each variant, computed once.
TimevalDoubles == {<<c, ToDouble(c.sec, c.sub, UsecPerSec)>> : c \in Readings("posix")}
CounterDoubles == {<<c, ToDouble(c.sec, c.sub, Freq)>> : c \in Readings("win32")}

\* now = t.tv_usec / 1000000.0: the seconds field left out.
TimevalUsecOnly(t) ==
    [k |-> "fin", s |-> 0, q |-> (CHOOSE p \in TimevalDoubles : p[1] = t)[2].q]

\* now = t.tv_sec + t.tv_usec / 1000000: an integer division.
TimevalIntegerDivision(t) == [k |-> "fin", s |-> t.sec, q |-> 0]

\* now = t.tv_sec + t.tv_usec / 1000000.0
TimevalSeconds(t) == (CHOOSE p \in TimevalDoubles : p[1] = t)[2]

\* now = (double)li.QuadPart / frequency
CounterSeconds(l, f) ==
    IF f = 0 THEN Inf
    ELSE IF f = Freq THEN (CHOOSE p \in CounterDoubles : p[1] = l)[2]
    ELSE Wrong

\* What QueryPerformanceFrequency stores into li.QuadPart: the frequency, or
\* 0 where the hardware has no high-resolution counter.
QueryPerformanceFrequency(p) == IF p = "ok" THEN {Freq} ELSE {0, Freq}

\* ---- history -------------------------------------------------------------
\* The record of a call that starts now in unit u with argument x; `after`
\* is the set of calls already completed.
NewCall(u, x) ==
    [tu |-> u, tgt |-> x,
     after |-> {k \in 1..Len(calls) : calls[k].done},
     queries |-> 0, got |-> 0, reads |-> 0, raw |-> NoRead, den |-> 0,
     val |-> Unset, done |-> FALSE]

\* ---- initial state -------------------------------------------------------
InitCommon ==
    /\ variant \in {"win32", "posix"}
    /\ clock = [sec |-> StartSec(variant), sub |-> 0]
    /\ frequency = [u \in Units |-> 0]
    /\ pc = [t \in Threads |-> "idle"]
    /\ cur = [t \in Threads |-> 0]
    /\ fli = [t \in Threads |-> 0]
    /\ li = [t \in Threads |-> NoRead]
    /\ tv = [t \in Threads |-> NoRead]
    /\ mem = [x \in VarNames |-> Unset]
    /\ calls = <<>>

Init == InitCommon /\ platform = "ok"

\* A platform without a usable performance counter: the query may yield 0.
InitFail == InitCommon /\ platform = "nocounter"

\* ---- GET_TIME ------------------------------------------------------------
\* Thread t reaches a GET_TIME(x) expanded in translation unit u.
Begin(t) ==
    /\ pc[t] = "idle"
    /\ Len(calls) < MaxCalls
    /\ \E u \in UnitsOf(variant), x \in VarNames : calls' = Append(calls, NewCall(u, x))
    /\ cur' = [cur EXCEPT ![t] = Len(calls) + 1]
    /\ pc' = [pc EXCEPT ![t] = IF variant = "win32" THEN "check" ELSE "gettimeofday"]
    /\ UNCHANGED <<variant, platform, clock, frequency, fli, li, tv, mem>>

\* init_frequency() called without the test of frequency.
CheckFrequencyAlways(t) ==
    /\ pc[t] = "check"
    /\ pc' = [pc EXCEPT ![t] = "query"]
    /\ UNCHANGED <<variant, platform, clock, frequency, cur, fli, li, tv, mem, calls>>

\* init_frequency() skipped when another thread is inside it for the same unit.
CheckFrequencySkipIfBusy(t) ==
    /\ pc[t] = "check"
    /\ pc' = [pc EXCEPT ![t] =
                IF /\ frequency[calls[cur[t]].tu] = 0
                   /\ ~\E o \in Threads \ {t} :
                         /\ pc[o] \in {"query", "store"}
                         /\ calls[cur[o]].tu = calls[cur[t]].tu
                THEN "query" ELSE "counter"]
    /\ UNCHANGED <<variant, platform, clock, frequency, cur, fli, li, tv, mem, calls>>

\* while (frequency == 0) ;   the call waits for the frequency to be set.
CheckFrequencyWait(t) ==
    /\ pc[t] = "check"
    /\ frequency[calls[cur[t]].tu] # 0
    /\ pc' = [pc EXCEPT ![t] = "counter"]
    /\ UNCHANGED <<variant, platform, clock, frequency, cur, fli, li, tv, mem, calls>>

\* if (frequency == 0) init_frequency();
CheckFrequency(t) ==
    /\ pc[t] = "check"
    /\ pc' = [pc EXCEPT ![t] = IF frequency[calls[cur[t]].tu] = 0 THEN "query" ELSE "counter"]
    /\ UNCHANGED <<variant, platform, clock, frequency, cur, fli, li, tv, mem, calls>>

\* init_frequency: QueryPerformanceFrequency(&li);
InitQuery(t) ==
    /\ pc[t] = "query"
    /\ \E f \in QueryPerformanceFrequency(platform) :
          /\ fli' = [fli EXCEPT ![t] = f]
          /\ calls' = [calls EXCEPT ![cur[t]].queries = @ + 1, ![cur[t]].got = f]
    /\ pc' = [pc EXCEPT ![t] = "store"]
    /\ UNCHANGED <<variant, platform, clock, frequency, cur, li, tv, mem>>

\* frequency declared extern: one object for all the translation units.
InitStoreShared(t) ==
    /\ pc[t] = "store"
    /\ frequency' = [u \in Units |-> fli[t]]
    /\ pc' = [pc EXCEPT ![t] = "counter"]
    /\ UNCHANGED <<variant, platform, clock, cur, fli, li, tv, mem, calls>>

\* frequency = li.QuadPart ? li.QuadPart : 1;   a failed query is papered over.
InitStoreNonzero(t) ==
    /\ pc[t] = "store"
    /\ frequency' = [frequency EXCEPT ![calls[cur[t]].tu] = IF fli[t] = 0 THEN 1 ELSE fli[t]]
    /\ pc' = [pc EXCEPT ![t] = "counter"]
    /\ UNCHANGED <<variant, platform, clock, cur, fli, li, tv, mem, calls>>

\* init_frequency: frequency = (double)li.QuadPart;
InitStore(t) ==
    /\ pc[t] = "store"
    /\ frequency' = [frequency EXCEPT ![calls[cur[t]].tu] = fli[t]]
    /\ pc' = [pc EXCEPT ![t] = "counter"]
    /\ UNCHANGED <<variant, platform, clock, cur, fli, li, tv, mem, calls>>

\* The counter is read only by the call that calibrated; the other calls
\* reuse the last tick count read.
ReadCounterCached(t) ==
    /\ pc[t] = "counter"
    /\ IF calls[cur[t]].queries = 1
       THEN /\ \E c \in Instants(variant) : clock' = c
            /\ calls' = [calls EXCEPT ![cur[t]].reads = @ + 1, ![cur[t]].raw = clock']
       ELSE /\ clock' = clock
            /\ calls' = [calls EXCEPT ![cur[t]].raw = clock]
    /\ li' = [li EXCEPT ![t] = clock']
    /\ pc' = [pc EXCEPT ![t] = "divide"]
    /\ UNCHANGED <<variant, platform, frequency, cur, fli, tv, mem>>

\* QueryPerformanceCounter(&li);
ReadCounter(t) ==
    /\ pc[t] = "counter"
    /\ \E c \in Instants(variant) : clock' = c
    /\ li' = [li EXCEPT ![t] = clock']
    /\ calls' = [calls EXCEPT ![cur[t]].reads = @ + 1, ![cur[t]].raw = clock']
    /\ pc' = [pc EXCEPT ![t] = "divide"]
    /\ UNCHANGED <<variant, platform, frequency, cur, fli, tv, mem>>

\* now = (double)li.QuadPart / frequency;   and the end of the block
Divide(t) ==
    LET c == calls[cur[t]]
        v == CounterSeconds(li[t], frequency[c.tu])
    IN  /\ pc[t] = "divide"
        /\ mem' = [mem EXCEPT ![c.tgt] = v]
        /\ calls' = [calls EXCEPT ![cur[t]].val = v, ![cur[t]].den = frequency[c.tu],
                                  ![cur[t]].done = TRUE]
        /\ pc' = [pc EXCEPT ![t] = "idle"]
        /\ cur' = [cur EXCEPT ![t] = 0]
        /\ fli' = [fli EXCEPT ![t] = 0]
        /\ li' = [li EXCEPT ![t] = NoRead]
        /\ UNCHANGED <<variant, platform, clock, frequency, tv>>

\* tv_sec and tv_usec fetched by two reads of the clock.
GetTimeOfDayTorn(t) ==
    /\ pc[t] = "gettimeofday"
    /\ \E c1, c2 \in Instants(variant) :
          /\ ~Before(c2, c1)
          /\ clock' = c2
          /\ tv' = [tv EXCEPT ![t] = [sec |-> c1.sec, sub |-> c2.sub]]
          /\ calls' = [calls EXCEPT ![cur[t]].reads = @ + 2, ![cur[t]].raw = c1]
    /\ pc' = [pc EXCEPT ![t] = "sum"]
    /\ UNCHANGED <<variant, platform, frequency, cur, fli, li, mem>>

\* gettimeofday(&t, NULL);
GetTimeOfDay(t) ==
    /\ pc[t] = "gettimeofday"
    /\ \E c \in Instants(variant) : clock' = c
    /\ tv' = [tv EXCEPT ![t] = clock']
    /\ calls' = [calls EXCEPT ![cur[t]].reads = @ + 1, ![cur[t]].raw = clock']
    /\ pc' = [pc EXCEPT ![t] = "sum"]
    /\ UNCHANGED <<variant, platform, frequency, cur, fli, li, mem>>

\* The result is also kept in every other caller variable.
SumClobber(t) ==
    LET c == calls[cur[t]]
        v == TimevalSeconds(tv[t])
    IN  /\ pc[t] = "sum"
        /\ mem' = [x \in VarNames |-> v]
        /\ calls' = [calls EXCEPT ![cur[t]].val = v, ![cur[t]].done = TRUE]
        /\ pc' = [pc EXCEPT ![t] = "idle"]
        /\ cur' = [cur EXCEPT ![t] = 0]
        /\ tv' = [tv EXCEPT ![t] = NoRead]
        /\ UNCHANGED <<variant, platform, clock, frequency, fli, li>>

\* now = t.tv_sec + t.tv_usec / 1000000.0;   and the end of the block
Sum(t) ==
    LET c == calls[cur[t]]
        v == TimevalSeconds(tv[t])
    IN  /\ pc[t] = "sum"
        /\ mem' = [mem EXCEPT ![c.tgt] = v]
        /\ calls' = [calls EXCEPT ![cur[t]].val = v, ![cur[t]].done = TRUE]
        /\ pc' = [pc EXCEPT ![t] = "idle"]
        /\ cur' = [cur EXCEPT ![t] = 0]
        /\ tv' = [tv EXCEPT ![t] = NoRead]
        /\ UNCHANGED <<variant, platform, clock, frequency, fli, li>>

\* One statement of a call in progress in thread t.
Step(t) ==
    \/ CheckFrequency(t)
    \/ InitQuery(t)
    \/ InitStore(t)
    \/ ReadCounter(t)
    \/ Divide(t)
    \/ GetTimeOfDay(t)
    \/ Sum(t)

Next ==
    \/ \E t \in Threads : Begin(t)
    \/ \E t \in Threads : Step(t)

Spec == Init /\ [][Next]_vars

\* The scheduler lets every thread that is inside a call take its next step.
SpecFair == Init /\ [][Next]_vars /\ \A t \in Threads : WF_vars(Step(t))

SpecFail == InitFail /\ [][Next]_vars

\* ---- properties ----------------------------------------------------------
Started == 1..Len(calls)
Done == {k \in Started : calls[k].done}
Finite(k) == calls[k].val.k = "fin"

RECURSIVE Sum_(_, _)
Sum_(f, n) == IF n = 0 THEN 0 ELSE f[n].queries + Sum_(f, n - 1)
\* Number of frequency queries executed so far in the process.
TotalQueries == Sum_(calls, Len(calls))

\* C1 as stated: over any sequence of GET_TIME calls the platform frequency
\* query is executed at most once.
C1_QueriedAtMostOnce == TotalQueries <= 1

\* C1 as amended: a call executes the frequency query at most once; a call
\* that starts after a call of the same translation unit has completed never
\* executes it; a completed call of a unit whose other calls all started after
\* it completed (the unit's first call) has executed it.
C1_NoRequeryWithinUnit ==
    \A k \in Started :
        /\ calls[k].queries <= 1
        /\ (\E j \in calls[k].after : calls[j].tu = calls[k].tu) => calls[k].queries = 0
        /\ ( /\ variant = "win32"
             /\ calls[k].done
             /\ \A j \in Started \ {k} :
                   calls[j].tu = calls[k].tu => k \in calls[j].after ) => calls[k].queries = 1

\* Three calls in one translation unit, one after the other: only the first queried.
C1_Witness ==
    /\ Done = 1..3
    /\ \A k \in 1..3 : calls[k].tu = 1 /\ calls[k].after = 1..(k - 1)
    /\ calls[1].queries = 1
    /\ calls[2].queries = 0 /\ calls[3].queries = 0

\* C2 as stated: the calibration constant is one value shared by every source
\* file that includes timer.h, so once any call has completed no later call,
\* from whichever file, executes the frequency query.
C2_SharedAcrossUnits ==
    \A k \in Started : calls[k].after # {} => calls[k].queries = 0

\* C2 as amended: each translation unit has its own frequency; it changes only
\* from 0, and only by the store of a call expanded in that same unit which
\* executed the query itself; once nonzero it never changes.
C2_FrequencyPerUnit ==
    [][\A u \in Units :
          frequency'[u] # frequency[u] =>
             /\ frequency[u] = 0
             /\ \E t \in Threads :
                   /\ pc[t] = "store" /\ pc'[t] = "counter"
                   /\ calls[cur[t]].tu = u
                   /\ calls[cur[t]].queries = 1
                   /\ frequency'[u] = fli[t]]_vars

\* Two units each calibrated by a call of their own.
C2_Witness ==
    /\ \A u \in {1, 2} : frequency[u] = Freq
    /\ \E j, k \in Done :
          /\ calls[j].tu = 1 /\ calls[k].tu = 2
          /\ calls[j].queries = 1 /\ calls[k].queries = 1
          /\ j \in calls[k].after

\* a <= b for two doubles.
Leq(a, b) ==
    /\ a.k = "fin" /\ b.k = "fin"
    /\ (a.s < b.s \/ (a.s = b.s /\ a.q <= b.q))

\* C3: if a call starts after another has completed and the platform clock it
\* reads is not earlier than the one the first call read, its value is not
\* smaller than the first call's value (both variants).
C3_NonNegativeDifference ==
    \A j, k \in Done :
        (j \in calls[k].after /\ ~Before(calls[k].raw, calls[j].raw))
            => Leq(calls[j].val, calls[k].val)

\* The first call calibrates, the second reads the clock after a rollover of
\* the seconds.
C3_Witness ==
    \E j, k \in Done :
        /\ j \in calls[k].after
        /\ calls[j].queries = 1
        /\ calls[j].raw.sec < calls[k].raw.sec
        /\ calls[j].raw.sub > calls[k].raw.sub
        /\ Leq(calls[j].val, calls[k].val) /\ calls[j].val # calls[k].val

\* The quanta per second of the doubles of this run, as a power of two.
RunBits == QuantBits(StartSec(variant))

\* Units of the platform clock between the reads of calls j and k.
Adv(j, k) ==
    (calls[k].raw.sec - calls[j].raw.sec) * Units_(variant)
        + calls[k].raw.sub - calls[j].raw.sub

\* finish - start in quanta, for start = value of call j, finish = value of call k.
Diff(j, k) ==
    (calls[k].val.s - calls[j].val.s) * 2 ^ RunBits + calls[k].val.q - calls[j].val.q

\* <<floor(a * 2^RunBits / units), remainder>> for 0 <= a < 2 * units.
AdvQuanta(a) ==
    LET u == Units_(variant)
        fr == Scale(0, a % u, u, RunBits)
    IN  <<(a \div u) * 2 ^ RunBits + fr[1], fr[2]>>

\* C4 as stated: finish - start equals the advance of the platform clock
\* between the two reads.
C4_DifferenceIsExact ==
    \A j, k \in Done :
        (Finite(j) /\ Finite(k) /\ Adv(j, k) >= 0)
            => AdvQuanta(Adv(j, k)) = <<Diff(j, k), 0>>

\* C4 as amended: finish - start differs from the advance of the platform
\* clock between the two reads by at most one quantum of the doubles that
\* hold the readings, whatever other calls were made.
C4_DifferenceWithinOneQuantum ==
    \A j, k \in Done :
        (Finite(j) /\ Finite(k) /\ Adv(j, k) >= 0) =>
            LET a == AdvQuanta(Adv(j, k))
                d == Diff(j, k)
            IN  /\ d - 1 <= a[1]
                /\ (a[1] < d + 1 \/ (a[1] = d + 1 /\ a[2] = 0))

\* start, another call, finish, with the clock advanced by one unit between
\* start and finish.
C4_Witness ==
    /\ Done = 1..3
    /\ \A k \in 1..3 : calls[k].after = 1..(k - 1)
    /\ Adv(1, 3) = 1
    /\ Diff(1, 3) > 0

\* C5: a step changes a caller variable only if it is the assignment of a
\* call whose argument is that variable, and changes a frequency only if it
\* is the store of init_frequency in the counter variant.
C5_WritesOnlyTarget ==
    [][/\ \A x \in VarNames :
             mem'[x] # mem[x] =>
                \E t \in Threads :
                    /\ pc[t] \in {"divide", "sum"} /\ pc'[t] = "idle"
                    /\ calls[cur[t]].tgt = x
       /\ frequency' # frequency =>
             /\ variant = "win32"
             /\ \E t \in Threads : pc[t] = "store" /\ pc'[t] = "counter"]_vars

\* A later call has completed on another variable and the earlier call's
\* variable still holds the earlier call's value.
C5_Witness ==
    \E j, k \in Done :
        /\ j \in calls[k].after
        /\ calls[j].tgt # calls[k].tgt
        /\ calls[j].val # calls[k].val
        /\ mem[calls[j].tgt] = calls[j].val
        /\ mem[calls[k].tgt] = calls[k].val

\* C6: in the counter variant every store of init_frequency writes the same
\* value, the platform's frequency, and every division is by that value.
C6_RaceIsBenign ==
    variant = "win32" =>
        /\ \A t \in Threads : pc[t] = "store" => fli[t] = Freq
        /\ \A t \in Threads :
              pc[t] \in {"counter", "divide"} => frequency[calls[cur[t]].tu] = Freq
        /\ \A k \in Done : calls[k].den = Freq /\ Finite(k)

\* Two overlapping first calls of one unit both ran init_frequency and both
\* completed.
C6_Witness ==
    \E j, k \in Done :
        /\ j # k /\ calls[j].tu = calls[k].tu
        /\ calls[j].queries = 1 /\ calls[k].queries = 1
        /\ calls[j].den = Freq /\ calls[k].den = Freq

\* C7: under a scheduler that lets every thread inside a call take its next
\* step, every call that has started completes.
C7_EveryCallCompletes ==
    \A t \in Threads : (pc[t] # "idle") ~> (pc[t] = "idle")

\* Two calls of one unit that overlapped while the frequency was still 0 have
\* both completed.
C7_Witness ==
    /\ variant = "win32"
    /\ \A t \in Threads : pc[t] = "idle"
    /\ {1, 2} \subseteq Done
    /\ calls[1].tu = calls[2].tu
    /\ 1 \notin calls[2].after
    /\ calls[1].queries = 1 /\ calls[2].queries = 1

\* C8: in the wall-clock variant a call reads the platform clock exactly once
\* and its value is seconds + microseconds / 1000000 of that one reading.
C8_OneReadBothFields ==
    variant = "posix" =>
        /\ \A t \in Threads :
              pc[t] = "sum" => calls[cur[t]].reads = 1 /\ tv[t] = calls[cur[t]].raw
        /\ \A k \in Done :
              /\ calls[k].reads = 1
              /\ calls[k].raw \in Instants(variant)
              /\ calls[k].val = ToDouble(calls[k].raw.sec, calls[k].raw.sub, UsecPerSec)

\* A call that read the clock just before a rollover of the seconds and one
\* that read it just after have both completed.
C8_Witness ==
    /\ variant = "posix"
    /\ \E j, k \in Done :
          /\ calls[j].raw.sub = UsecPerSec - 1
          /\ calls[k].raw = [sec |-> calls[j].raw.sec + 1, sub |-> 0]
          /\ calls[j].val.q > 0 /\ calls[k].val.q = 0

\* C9: in the counter variant every call reads the tick counter exactly once
\* and its value is that tick count divided by the platform's frequency, the
\* calibrating call included.
C9_FreshTicksOverFrequency ==
    variant = "win32" =>
        /\ \A t \in Threads :
              pc[t] = "divide" => calls[cur[t]].reads = 1 /\ li[t] = calls[cur[t]].raw
        /\ \A k \in Done :
              /\ calls[k].reads = 1
              /\ calls[k].raw \in Instants(variant)
              /\ calls[k].val = ToDouble(calls[k].raw.sec, calls[k].raw.sub, Freq)

\* The calibrating call and a later call of the same unit have completed with
\* different tick counts.
C9_Witness ==
    /\ variant = "win32"
    /\ \E j, k \in Done :
          /\ j \in calls[k].after /\ calls[j].tu = calls[k].tu
          /\ calls[j].queries = 1 /\ calls[k].queries = 0
          /\ calls[j].raw # calls[k].raw
          /\ Finite(j) /\ Finite(k) /\ calls[j].val # calls[k].val

\* C10: on a platform whose frequency query may yield 0, every completed call
\* has assigned a value; a unit's frequency is nonzero only once a query of
\* that unit has yielded a nonzero value; a call executes the query unless
\* another call of its unit obtained a nonzero value; a call that obtained 0
\* and divided by 0 assigned an infinity.
C10_RequeryWhileZero ==
    variant = "win32" =>
        /\ \A k \in Done : calls[k].val.k \in {"fin", "inf"}
        /\ \A u \in Units :
              frequency[u] # 0 => \E j \in Started : calls[j].tu = u /\ calls[j].got # 0
        /\ \A k \in Done :
              (\A j \in Started \ {k} : calls[j].tu = calls[k].tu => calls[j].got = 0)
                  => calls[k].queries = 1
        /\ \A k \in Done :
              (calls[k].got = 0 /\ calls[k].den = 0) => calls[k].val = Inf

\* Two calls in a row obtained 0 and assigned an infinity; the third obtained
\* the frequency and assigned a finite value.
C10_Witness ==
    /\ platform = "nocounter"
    /\ Done = 1..3
    /\ \A k \in 1..3 :
          calls[k].tu = 1 /\ calls[k].after = 1..(k - 1) /\ calls[k].queries = 1
    /\ calls[1].val = Inf /\ calls[2].val = Inf
    /\ calls[3].got = Freq /\ Finite(3)

====
